---------------------------- MODULE Spec2Model ----------------------------
(***************************************************************************)
(* Model of python-shapefile-converter/convert_shapefiles.py: the batch    *)
(* conversion of the shapefiles of an input directory to GeoJSON           *)
(* (ShapefileConverter.convert_all_shapefiles), the metadata aggregation   *)
(* over the converted files (ShapefileConverter.create_metadata_file) and  *)
(* the pipeline that runs the two in sequence (main); and of the           *)
(* /api/projects route of python-web-app/app.py (get_projects).            *)
(*                                                                         *)
(* The geospatial library (geopandas read_file / to_file) and the file     *)
(* system are the environment: each read, conversion, write and re-read    *)
(* succeeds or fails nondeterministically.  The output directory is        *)
(* assumed writable for metadata.json once the converter is constructed.   *)
(***************************************************************************)
EXTENDS Naturals, Sequences, FiniteSets

\* Number of distinct file stems, hence the most shapefiles a directory holds.
MaxFiles == 2

\* Longest "features" array of a GeoJSON document.
MaxFeatures == 2

VARIABLES
    pc,               \* position of the running operation
    entry,            \* the operation invoked: "main", "create_metadata_file"
                      \* or "get_projects"
    input_dir,        \* [exists, listing]: the input directory and its entries
    outdir,           \* output directory: file name -> content, or NoFile
    metadata_json,    \* content of <output_dir>/metadata.json, or NoFile
    metadata_writes,  \* how many times this run wrote metadata.json
    shapefile_paths,  \* convert_all_shapefiles: the discovered paths
    attempted,        \* paths for which "Reading shapefile:" was printed
    errors,           \* paths for which "Error converting" was printed
    converted_files,  \* the list of converted output paths
    metadata,         \* create_metadata_file: the dict being built
    idx,              \* create_metadata_file: files of the loop done so far
    geojson_data,     \* create_metadata_file: the document last loaded
    warnings,         \* paths for which "Warning: Could not read" was printed
    missing_dirs,     \* trailing components of the output_dir path that do not exist
    folds_case,       \* the output directory's file system ignores letter case
    app_config,       \* web app: the keys set in app.config
    remote,           \* web app: how the call of the remote project API ended
    demo_file,        \* web app: state of demo_projects.json
    response          \* web app: what get_projects returned

\* The state of the web application (python-web-app/app.py).
webvars == <<app_config, remote, demo_file, response>>

vars == <<pc, entry, input_dir, outdir, metadata_json, metadata_writes,
          shapefile_paths, attempted, errors, converted_files, metadata,
          idx, geojson_data, warnings, missing_dirs, folds_case, webvars>>

-----------------------------------------------------------------------------
(* File names and paths *)

Stems == 1..MaxFiles

\* A file name, split as pathlib does into stem and suffix.
FileName(stem, ext) == [stem |-> stem, ext |-> ext]

\* Names an input directory may hold: shapefiles and their sidecar files.
InputNames == {FileName(s, e) : s \in Stems, e \in {"shp", "dbf"}}

\* Names of the GeoJSON files of the output directory.
OutputNames == {FileName(s, "geojson") : s \in Stems}

NoFile == [kind |-> "nofile"]

\* A GeoJSON file left by an earlier run.
StaleFile == [kind |-> "stale"]

\* A GeoJSON file written by to_file in this run, completely or not.
WrittenFile(shp, complete) == [kind |-> "written", writer |-> shp, complete |-> complete]

\* Stems 2k-1 and 2k spell one name in two letter cases ("region" and
\* "Region"): a file system that ignores case keeps one file for both.
FoldStem(stem) == 2 * ((stem + 1) \div 2) - 1

\* The file of the output directory a path names.
DiskKey(path) ==
    IF folds_case THEN FileName(FoldStem(path.stem), path.ext) ELSE path

\* Sequences without repetition over S, of length at most n.
SeqsNoDup(S, n) ==
    {s \in UNION {[1..k -> S] : k \in 0..n} :
        \A a, b \in DOMAIN s : a # b => s[a] # s[b]}

\* All sequences over S of length at most n.
SeqsUpTo(S, n) == UNION {[1..k -> S] : k \in 0..n}

-----------------------------------------------------------------------------
(* GeoJSON documents as json.load returns them *)

NoMember == "<no member>"

\* Key lists of a properties object, in the order of the document.
PropertyKeyLists == {<<>>, <<"name", "id">>}

\* A feature: its "properties" member may be missing.
Features ==
    {[has_properties |-> FALSE, properties |-> <<>>]}
    \cup {[has_properties |-> TRUE, properties |-> ks] : ks \in PropertyKeyLists}

\* A document: its "type" and "features" members may be missing.
Docs ==
    {[type |-> t, has_features |-> FALSE, features |-> <<>>] :
        t \in {"FeatureCollection", NoMember}}
    \cup {[type |-> t, has_features |-> TRUE, features |-> fs] :
        t \in {"FeatureCollection", NoMember},
        fs \in SeqsUpTo(Features, MaxFeatures)}

\* open() or json.load() raised: there is no document.
LoadError == [type |-> "<load error>", has_features |-> FALSE, features |-> <<>>]

\* Nothing has been loaded yet.
NotLoaded == [type |-> "<not loaded>", has_features |-> FALSE, features |-> <<>>]


\* Documents the GeoJSON driver of to_file writes: a FeatureCollection whose
\* features all carry a properties object.
WrittenDocs ==
    {d \in Docs :
        /\ d.type = "FeatureCollection"
        /\ d.has_features
        /\ \A k \in DOMAIN d.features : d.features[k].has_properties}

\* What open() + json.load() may give for a path, by what the directory holds
\* there: a missing file cannot be opened, any other file may fail to load.
Loadable(content) ==
    IF content = NoFile THEN {LoadError}
    ELSE IF content.kind = "written" /\ content.complete
         THEN WrittenDocs \cup {LoadError}
         ELSE Docs \cup {LoadError}

-----------------------------------------------------------------------------
(* ShapefileConverter.__init__ *)

\* Deepest chain of missing directories at the end of the output_dir path.
MaxDepth == 2

\* self.output_dir.mkdir(exist_ok=True): an existing directory is accepted,
\* a missing one is created when its parent exists; with a missing parent
\* mkdir raises FileNotFoundError, as parents=True is not passed.
MkdirFails(missing) == missing > 1

\* The constructor: the paths are stored and the output directory is made.
\* An exception of mkdir leaves the constructor, and main with it.
Construct ==
    /\ pc = "construct"
    /\ IF MkdirFails(missing_dirs)
       THEN /\ pc' = "construct_failed"
            /\ UNCHANGED missing_dirs
       ELSE /\ pc' = IF entry = "main" THEN "convert_all_shapefiles"
                     ELSE "create_metadata_file"
            /\ missing_dirs' = 0
    /\ UNCHANGED <<entry, input_dir, outdir, metadata_json, metadata_writes,
                   shapefile_paths, attempted, errors, converted_files,
                   metadata, idx, geojson_data, warnings, folds_case, webvars>>

-----------------------------------------------------------------------------
(* ShapefileConverter.convert_shapefile_to_geojson *)

\* How one conversion ends: gpd.read_file raises, to_file raises (leaving
\* nothing, or a partly written file), or nothing raises.
Outcomes == {"ok", "read_error", "write_error", "write_error_partial"}

\* output_dir / (stem + '.geojson')
OutputPath(shp) == FileName(shp.stem, "geojson")

\* Faulty variant: the handler covers gpd.read_file only.
CaughtReadOnly(outcome) == outcome = "read_error"

\* except Exception: every failure raised in the try block is caught.
Caught(outcome) == outcome # "ok"

\* Faulty variant: the output path is returned from the handler as well.
ConvertAlwaysPath(shp, outcome) == <<OutputPath(shp)>>

\* The return value as a list: <<output_path>>, or <<>> for None.
ConvertShapefileToGeojson(shp, outcome) ==
    IF outcome = "ok" THEN <<OutputPath(shp)>> ELSE <<>>

\* Faulty variant: a file that is already there is not written again.
ToFileKeepExisting(dir, shp, outcome) ==
    IF dir[DiskKey(OutputPath(shp))] # NoFile THEN dir
    ELSE CASE outcome = "ok" ->
                [dir EXCEPT ![DiskKey(OutputPath(shp))] = WrittenFile(shp, TRUE)]
           [] outcome = "write_error_partial" ->
                [dir EXCEPT ![DiskKey(OutputPath(shp))] = WrittenFile(shp, FALSE)]
           [] OTHER -> dir

\* The output directory after gdf.to_file(output_path, driver='GeoJSON'):
\* a file already at the path is replaced.
ToFile(dir, shp, outcome) ==
    CASE outcome = "ok" ->
            [dir EXCEPT ![DiskKey(OutputPath(shp))] = WrittenFile(shp, TRUE)]
      [] outcome = "write_error_partial" ->
            [dir EXCEPT ![DiskKey(OutputPath(shp))] = WrittenFile(shp, FALSE)]
      [] OTHER -> dir

-----------------------------------------------------------------------------
(* ShapefileConverter.convert_all_shapefiles *)

IsShapefile(name) == name.ext = "shp"

\* Faulty variant: the pattern matches every file of the directory.
GlobEveryFile(dir) == IF dir.exists THEN dir.listing ELSE <<>>

\* list(self.input_dir.glob("*.shp")): nothing for a missing directory.
Glob(dir) == IF dir.exists THEN SelectSeq(dir.listing, IsShapefile) ELSE <<>>

\* Faulty variant: the new result goes to the front of the list.
CollectResultFront(converted, result) == result \o converted

\* if result: converted_files.append(result)
CollectResult(converted, result) == converted \o result

\* shapefile_paths = glob; an empty list returns [] at once.
Discover ==
    /\ pc = "convert_all_shapefiles"
    /\ shapefile_paths' = Glob(input_dir)
    /\ converted_files' = <<>>
    /\ pc' = IF Glob(input_dir) = <<>> THEN "returned" ELSE "converting"
    /\ UNCHANGED <<entry, input_dir, outdir, metadata_json, metadata_writes,
                   attempted, errors, metadata, idx, geojson_data, warnings>>
    /\ UNCHANGED <<missing_dirs, folds_case, webvars>>

\* One iteration of the loop: one call of convert_shapefile_to_geojson.
ConvertNext ==
    /\ pc = "converting"
    /\ Len(attempted) < Len(shapefile_paths)
    /\ LET shp == shapefile_paths[Len(attempted) + 1] IN
       \E outcome \in Outcomes :
          /\ attempted' = Append(attempted, shp)
          /\ outdir' = ToFile(outdir, shp, outcome)
          /\ IF outcome = "ok" \/ Caught(outcome)
             THEN /\ converted_files' =
                        CollectResult(converted_files,
                                      ConvertShapefileToGeojson(shp, outcome))
                  /\ errors' = IF outcome = "ok" THEN errors
                               ELSE Append(errors, shp)
                  /\ pc' = pc
             ELSE /\ pc' = "raised"
                  /\ UNCHANGED <<converted_files, errors>>
    /\ UNCHANGED <<entry, input_dir, metadata_json, metadata_writes,
                   shapefile_paths, metadata, idx, geojson_data, warnings>>
    /\ UNCHANGED <<missing_dirs, folds_case, webvars>>

\* The loop is over: return converted_files.
ReturnConverted ==
    /\ pc = "converting"
    /\ Len(attempted) = Len(shapefile_paths)
    /\ pc' = "returned"
    /\ UNCHANGED <<entry, input_dir, outdir, metadata_json, metadata_writes,
                   shapefile_paths, attempted, errors, converted_files,
                   metadata, idx, geojson_data, warnings>>
    /\ UNCHANGED <<missing_dirs, folds_case, webvars>>

-----------------------------------------------------------------------------
(* ShapefileConverter.create_metadata_file *)

\* len(geojson_data.get('features', []))
FeaturesCount(doc) == IF doc.has_features THEN Len(doc.features) ELSE 0

\* geojson_data.get('type', 'Unknown')
TypeOf(doc) == IF doc.type = NoMember THEN "Unknown" ELSE doc.type

\* list(first_feature.get('properties', {}).keys()): dict order is kept.
PropertyKeys(feature) ==
    IF feature.has_properties THEN feature.properties ELSE <<>>

\* The entry of one file; sample_properties is set only under
\* "if geojson_data.get('features')": the member present and not empty.
FileInfo(file_path, doc) ==
    IF doc.has_features /\ doc.features # <<>>
    THEN [filename |-> file_path,
          features_count |-> FeaturesCount(doc),
          type |-> TypeOf(doc),
          sample_properties |-> PropertyKeys(doc.features[1])]
    ELSE [filename |-> file_path,
          features_count |-> FeaturesCount(doc),
          type |-> TypeOf(doc)]

\* The dict create_metadata_file starts from.
NewMetadata(converted) == [total_files |-> Len(converted), files |-> <<>>]

\* metadata = {...}: the first statement of create_metadata_file.
BeginMetadata ==
    /\ pc = "create_metadata_file"
    /\ metadata' = NewMetadata(converted_files)
    /\ idx' = 0
    /\ pc' = "aggregating"
    /\ UNCHANGED <<entry, input_dir, outdir, metadata_json, metadata_writes,
                   shapefile_paths, attempted, errors, converted_files,
                   geojson_data, warnings>>
    /\ UNCHANGED <<missing_dirs, folds_case, webvars>>

\* Faulty variant: geojson_data['features'] instead of .get: a document
\* without the member raises and gets no entry.
AfterFileStrict(md, file_path, doc) ==
    IF doc = LoadError \/ ~doc.has_features THEN md
    ELSE [md EXCEPT !.files = Append(@, FileInfo(file_path, doc))]

\* The metadata dict after the try block of one file: an entry is appended,
\* or the except clause has printed its warning and nothing is appended.
AfterFile(md, file_path, doc) ==
    IF doc = LoadError THEN md
    ELSE [md EXCEPT !.files = Append(@, FileInfo(file_path, doc))]

\* Faulty variant: the try block encloses the whole loop, so the first
\* failure ends it.
AggregateNextAbort ==
    /\ pc = "aggregating"
    /\ idx < Len(converted_files)
    /\ LET file_path == converted_files[idx + 1] IN
       \E doc \in Loadable(outdir[DiskKey(file_path)]) :
          /\ geojson_data' = doc
          /\ metadata' = AfterFile(metadata, file_path, doc)
          /\ warnings' = IF doc = LoadError THEN Append(warnings, file_path)
                         ELSE warnings
          /\ idx' = IF doc = LoadError THEN Len(converted_files) ELSE idx + 1
    /\ UNCHANGED <<pc, entry, input_dir, outdir, metadata_json,
                   metadata_writes, shapefile_paths, attempted, errors,
                   converted_files>>
    /\ UNCHANGED <<missing_dirs, folds_case, webvars>>

\* One iteration of "for file_path in converted_files".
AggregateNext ==
    /\ pc = "aggregating"
    /\ idx < Len(converted_files)
    /\ LET file_path == converted_files[idx + 1] IN
       \E doc \in Loadable(outdir[DiskKey(file_path)]) :
          /\ geojson_data' = doc
          /\ metadata' = AfterFile(metadata, file_path, doc)
          /\ warnings' = IF doc = LoadError THEN Append(warnings, file_path)
                         ELSE warnings
    /\ idx' = idx + 1
    /\ UNCHANGED <<pc, entry, input_dir, outdir, metadata_json,
                   metadata_writes, shapefile_paths, attempted, errors,
                   converted_files>>
    /\ UNCHANGED <<missing_dirs, folds_case, webvars>>

\* Faulty variant: nothing is written for an empty list.
SaveMetadataUnlessEmpty ==
    /\ pc = "aggregating"
    /\ idx = Len(converted_files)
    /\ metadata_json' = IF converted_files = <<>> THEN metadata_json ELSE metadata
    /\ metadata_writes' = IF converted_files = <<>> THEN metadata_writes
                          ELSE metadata_writes + 1
    /\ pc' = "done"
    /\ UNCHANGED <<entry, input_dir, outdir, shapefile_paths, attempted,
                   errors, converted_files, metadata, idx, geojson_data,
                   warnings>>
    /\ UNCHANGED <<missing_dirs, folds_case, webvars>>

\* json.dump(metadata, f) to <output_dir>/metadata.json, opened with 'w'.
SaveMetadata ==
    /\ pc = "aggregating"
    /\ idx = Len(converted_files)
    /\ metadata_json' = metadata
    /\ metadata_writes' = metadata_writes + 1
    /\ pc' = "done"
    /\ UNCHANGED <<entry, input_dir, outdir, shapefile_paths, attempted,
                   errors, converted_files, metadata, idx, geojson_data,
                   warnings>>
    /\ UNCHANGED <<missing_dirs, folds_case, webvars>>

-----------------------------------------------------------------------------
(* main *)

\* "if converted_files:" calls create_metadata_file, else only prints.
MainBranch ==
    /\ pc = "returned"
    /\ pc' = IF converted_files # <<>> THEN "create_metadata_file" ELSE "done"
    /\ UNCHANGED <<entry, input_dir, outdir, metadata_json, metadata_writes,
                   shapefile_paths, attempted, errors, converted_files,
                   metadata, idx, geojson_data, warnings>>
    /\ UNCHANGED <<missing_dirs, folds_case, webvars>>

-----------------------------------------------------------------------------
(* get_projects: the /api/projects route of the web application *)

\* How requests.get(LARAVEL_API_URL, timeout=5) ends: a response with a
\* status code, or a requests.RequestException (a timeout is one).
RemoteOutcomes ==
    {"status_200", "status_404", "status_500", "timeout", "connection_error"}

\* demo_projects.json: not there, a JSON document, or not parseable.
DemoFileStates == {"missing", "valid", "corrupt"}

\* The fallback after the inner try: app.config['BASE_DIR'] is looked up
\* first; a KeyError there, like a failure of json.load, reaches the outer
\* "except Exception", which answers 500 with an error body.
FallbackResponse(config, demo) ==
    IF "BASE_DIR" \notin config THEN [status |-> 500, body |-> "error"]
    ELSE IF demo = "valid" THEN [status |-> 200, body |-> "demo data"]
    ELSE IF demo = "corrupt" THEN [status |-> 500, body |-> "error"]
    ELSE [status |-> 200, body |-> "empty array"]

\* The inner try: a 200 answer is returned as it is; any other status and
\* any RequestException fall through to the fallback.
CallRemote ==
    /\ pc = "get_projects"
    /\ \E outcome \in RemoteOutcomes :
          /\ remote' = outcome
          /\ IF outcome = "status_200"
             THEN /\ response' = [status |-> 200, body |-> "remote data"]
                  /\ pc' = "responded"
             ELSE /\ pc' = "fallback"
                  /\ UNCHANGED response
    /\ UNCHANGED <<entry, input_dir, outdir, metadata_json, metadata_writes,
                   shapefile_paths, attempted, errors, converted_files,
                   metadata, idx, geojson_data, warnings, missing_dirs,
                   folds_case, app_config, demo_file>>

\* The rest of the handler, after the remote call did not answer 200.
Fallback ==
    /\ pc = "fallback"
    /\ response' = FallbackResponse(app_config, demo_file)
    /\ pc' = "responded"
    /\ UNCHANGED <<entry, input_dir, outdir, metadata_json, metadata_writes,
                   shapefile_paths, attempted, errors, converted_files,
                   metadata, idx, geojson_data, warnings, missing_dirs,
                   folds_case, app_config, remote, demo_file>>

-----------------------------------------------------------------------------
(* Initial states: a converter about to be constructed and then to run main, *)
(* or to be asked for the metadata of a list of output paths; or the web     *)
(* application about to serve a request of /api/projects.                    *)

\* The entry an earlier run left in metadata.json for one output file.
StaleEntry(name) ==
    [filename |-> name, features_count |-> 1, type |-> "FeatureCollection",
     sample_properties |-> <<"name", "id">>]

\* The metadata.json an earlier run left for the output files of prev.
StaleMetadata(prev) ==
    LET names == SelectSeq([s \in 1..MaxFiles |-> FileName(s, "geojson")],
                           LAMBDA n : n \in prev)
    IN [total_files |-> Len(names),
        files |-> [k \in 1..Len(names) |-> StaleEntry(names[k])]]

Init ==
    /\ entry \in {"main", "create_metadata_file", "get_projects"}
    /\ pc = IF entry = "get_projects" THEN "get_projects" ELSE "construct"
    /\ missing_dirs \in 0..MaxDepth
    /\ folds_case \in BOOLEAN
    /\ entry = "get_projects" => (missing_dirs = 0 /\ folds_case = FALSE)
    /\ app_config = {"SECRET_KEY", "DEBUG"}
    /\ remote = "not called"
    /\ demo_file \in DemoFileStates
    /\ entry # "get_projects" => demo_file = "missing"
    /\ response = [status |-> 0, body |-> "none"]
    /\ input_dir \in
         {[exists |-> e, listing |-> l] :
             e \in BOOLEAN, l \in SeqsNoDup(InputNames, MaxFiles)}
    /\ input_dir.exists = FALSE => input_dir.listing = <<>>
    /\ entry # "main" => input_dir.exists = FALSE
    /\ \E prev \in SUBSET {DiskKey(n) : n \in OutputNames} :
          /\ (missing_dirs > 0 \/ entry = "get_projects") => prev = {}
          /\ outdir = [n \in OutputNames |->
                          IF n \in prev THEN StaleFile ELSE NoFile]
          /\ metadata_json = IF prev = {} THEN NoFile ELSE StaleMetadata(prev)
    /\ metadata_writes = 0
    /\ shapefile_paths = <<>>
    /\ attempted = <<>>
    /\ errors = <<>>
    /\ converted_files \in SeqsNoDup(OutputNames, MaxFiles)
    /\ entry # "create_metadata_file" => converted_files = <<>>
    /\ metadata = NewMetadata(<<>>)
    /\ idx = 0
    /\ geojson_data = NotLoaded
    /\ warnings = <<>>

Next ==
    \/ Construct
    \/ Discover
    \/ ConvertNext
    \/ ReturnConverted
    \/ MainBranch
    \/ BeginMetadata
    \/ AggregateNext
    \/ SaveMetadata
    \/ CallRemote
    \/ Fallback

Spec == Init /\ [][Next]_vars

-----------------------------------------------------------------------------
(* Properties *)

Range(s) == {s[k] : k \in DOMAIN s}

Last(s) == s[Len(s)]

\* The file names of a sequence of metadata entries.
FileNames(files) == [k \in DOMAIN files |-> files[k].filename]

\* s is t with some elements left out, the others in their order.
IsSubSeq(s, t) ==
    \E f \in [1..Len(s) -> 1..Len(t)] :
        /\ \A k \in 1..Len(s) : t[f[k]] = s[k]
        /\ \A a, b \in 1..Len(s) : a < b => f[a] < f[b]

\* convert_all_shapefiles has returned to main.
AfterConvertAll ==
    /\ entry = "main"
    /\ pc \in {"returned", "create_metadata_file", "aggregating", "done"}

\* The output paths of the discovered inputs whose conversion did not fail.
OutputsOfConverted ==
    LET ok == SelectSeq(shapefile_paths, LAMBDA p : p \notin Range(errors))
    IN [k \in DOMAIN ok |-> OutputPath(ok[k])]

\* The GeoJSON files of the output directory written by this run.
WrittenByRun == {n \in OutputNames : outdir[n].kind = "written"}

\* C1: in convert_all_shapefiles each discovered file is attempted exactly
\* once, in discovery order; a failure on one file is caught and never stops
\* the attempts on the later files, and the batch never raises: it runs until
\* every discovered file has been attempted and then returns.
C1_EveryFileAttemptedOnce ==
    /\ pc # "raised"
    /\ attempted = SubSeq(shapefile_paths, 1, Len(attempted))
    /\ pc = "converting" => ENABLED (ConvertNext \/ ReturnConverted)
    /\ AfterConvertAll => attempted = shapefile_paths

\* The first of two discovered files has failed, the second was converted.
C1_Witness ==
    /\ pc = "returned"
    /\ Len(shapefile_paths) = 2
    /\ errors = <<shapefile_paths[1]>>
    /\ converted_files = <<OutputPath(shapefile_paths[2])>>

\* C2: in every metadata document written by create_metadata_file,
\* total_files equals the length of files.
C2_TotalFilesIsLength ==
    metadata_writes > 0 => metadata_json.total_files = Len(metadata_json.files)

C4_StaleMetadataReplaced ==
    (entry = "main" /\ pc = "done" /\ metadata_json # NoFile) =>
        /\ metadata_writes > 0
        /\ \A k \in DOMAIN metadata_json.files :
              metadata_json.files[k].filename \in Range(converted_files)

\* C5: create_metadata_file on an empty list raises nothing and still writes
\* metadata.json, with total_files = 0 and an empty files sequence.
C5_EmptyInputStillWritten ==
    (entry = "create_metadata_file" /\ converted_files = <<>>
     /\ pc # "construct_failed") =>
        /\ pc # "done" => ENABLED Next
        /\ pc = "done" =>
              /\ metadata_writes = 1
              /\ metadata_json = [total_files |-> 0, files |-> <<>>]

\* The call on an empty list has returned, over a stale metadata.json.
C5_Witness ==
    /\ entry = "create_metadata_file"
    /\ converted_files = <<>>
    /\ pc = "done"
    /\ \E n \in OutputNames : outdir[n] = StaleFile

\* C6: every file that was re-read without failure has an entry, whose
\* features_count is the length of the document's features array, and 0 when
\* the document has no features member.
C6_FeaturesCount ==
    (pc \in {"aggregating", "done"} /\ idx > 0 /\ geojson_data # LoadError) =>
        /\ Len(metadata.files) = idx - Len(warnings)
        /\ Len(metadata.files) > 0
        /\ Last(metadata.files).filename = converted_files[idx]
        /\ Last(metadata.files).features_count =
              IF geojson_data.has_features THEN Len(geojson_data.features)
              ELSE 0

\* A document of MaxFeatures features, then one without a features member.
C6_Witness ==
    /\ idx = 2
    /\ Len(metadata.files) = 2
    /\ metadata.files[1].features_count = MaxFeatures
    /\ geojson_data \in Docs
    /\ ~geojson_data.has_features
    /\ metadata.files[2].features_count = 0

\* C7: every entry has a sample_properties sequence: the property keys of
\* the first feature in their order, and the empty sequence when the file has
\* no features or its first feature has no properties.
C7_SamplePropertiesAlways ==
    (pc \in {"aggregating", "done"} /\ idx > 0 /\ geojson_data # LoadError) =>
        /\ \A k \in DOMAIN metadata.files :
              "sample_properties" \in DOMAIN metadata.files[k]
        /\ Last(metadata.files).sample_properties =
              IF geojson_data.has_features /\ geojson_data.features # <<>>
                 /\ geojson_data.features[1].has_properties
              THEN geojson_data.features[1].properties
              ELSE <<>>

\* C8: in create_metadata_file a file that cannot be opened or parsed gets no
\* entry and a warning; every other file of the list gets exactly one entry,
\* in order; the loop never stops early and metadata.json is written once.
C8_ReadFailureNonFatal ==
    /\ pc = "aggregating" => ENABLED (AggregateNext \/ SaveMetadata)
    /\ pc \in {"aggregating", "done"} =>
          FileNames(metadata.files) =
             SelectSeq(SubSeq(converted_files, 1, idx),
                       LAMBDA p : p \notin Range(warnings))
    /\ (pc = "done" /\ (entry = "create_metadata_file" \/ converted_files # <<>>)) =>
          /\ idx = Len(converted_files)
          /\ metadata_writes = 1
          /\ metadata_json = metadata

\* The first of two files could not be loaded, the second has its entry in
\* the written document.
C8_Witness ==
    /\ pc = "done"
    /\ Len(converted_files) = 2
    /\ warnings = <<converted_files[1]>>
    /\ metadata_writes = 1
    /\ FileNames(metadata_json.files) = <<converted_files[2]>>

NoShapefiles ==
    \/ ~input_dir.exists
    \/ \A k \in DOMAIN input_dir.listing : input_dir.listing[k].ext # "shp"

\* C10: for an input directory that is missing or holds no *.shp file,
\* convert_all_shapefiles returns an empty list, raises nothing, attempts no
\* conversion and writes no output file.
C10_NoShapefilesNoOutput ==
    (entry = "main" /\ NoShapefiles
     /\ pc \notin {"construct", "construct_failed", "convert_all_shapefiles"}) =>
        /\ pc \in {"returned", "done"}
        /\ shapefile_paths = <<>>
        /\ converted_files = <<>>
        /\ attempted = <<>>
        /\ WrittenByRun = {}

\* The call has returned for a directory that holds only a sidecar file.
C10_Witness ==
    /\ entry = "main"
    /\ pc = "returned"
    /\ input_dir.exists
    /\ input_dir.listing # <<>>
    /\ NoShapefiles

\* C11: constructing the converter with an output directory that does not
\* exist creates it, missing parent directories included, at every depth of
\* missing ancestors.
C11_CreatesMissingParents ==
    pc # "construct" => (pc # "construct_failed" /\ missing_dirs = 0)

\* Two distinct inputs whose output paths name the same file.
Colliding(p, q) ==
    p # q /\ DiskKey(OutputPath(p)) = DiskKey(OutputPath(q))

\* C12: when two distinct inputs of one run get the same output file and
\* both are converted, the run does not crash, both output paths are
\* returned, and the one file they name holds the content of the input
\* processed last.
C12_LastWriterWins ==
    /\ pc # "raised"
    /\ AfterConvertAll =>
          \A i, j \in DOMAIN shapefile_paths :
             (/\ i < j
              /\ Colliding(shapefile_paths[i], shapefile_paths[j])
              /\ shapefile_paths[i] \notin Range(errors)
              /\ shapefile_paths[j] \notin Range(errors)) =>
                /\ OutputPath(shapefile_paths[i]) \in Range(converted_files)
                /\ OutputPath(shapefile_paths[j]) \in Range(converted_files)
                /\ outdir[DiskKey(OutputPath(shapefile_paths[j]))] =
                      WrittenFile(shapefile_paths[j], TRUE)

\* Two case variants of one name were both converted into one file.
C12_Witness ==
    /\ entry = "main"
    /\ pc = "returned"
    /\ Len(shapefile_paths) = 2
    /\ Colliding(shapefile_paths[1], shapefile_paths[2])
    /\ errors = <<>>
    /\ Len(converted_files) = 2
    /\ Cardinality(WrittenByRun) = 1

\* C13: whenever the remote call of get_projects times out, raises a
\* request error or answers with a status other than 200, the handler
\* returns the demo data if demo_projects.json is there and an empty array if
\* not, and never an error response.
C13_FallbackNeverError ==
    (pc = "responded" /\ remote # "status_200" /\ demo_file # "corrupt") =>
        /\ response.status = 200
        /\ response.body = IF demo_file = "valid" THEN "demo data"
                           ELSE "empty array"

=============================================================================
